---- MODULE Spec2Model ----
(***************************************************************************)
(* Model of src/tools/pymupdf.py: PymupdfTool, a generator that turns a    *)
(* list of PDF items into text / JSON / blob messages.                     *)
(*                                                                         *)
(* Python values are tagged records [t |-> type, v |-> value].  A str is a *)
(* sequence of Unicode code points; bytes produced by str.encode are a     *)
(* sequence of integers 0..255.  The bytes of a PDF file are modelled by   *)
(* what the PDF library reports for them: whether they open as a PDF and   *)
(* the text of each page.                                                  *)
(***************************************************************************)
EXTENDS Integers, Sequences, FiniteSets, TLC

VARIABLES
    files,        \* tool_parameters.get("files")
    pc,           \* position of the generator _invoke
    i,            \* 1-based index of the item the for loop is at
    url,          \* local url of the current item
    filename,     \* local filename of the current item
    pdf_bytes,    \* local pdf_bytes of the current item
    page_dicts,   \* local page_dicts of the current item
    joined_text,  \* local joined_text of the current item
    err,          \* the exception caught for the current item
    resp,         \* the HTTP response received for the current item
    out,          \* the messages yielded so far
    owner,        \* for each message of out, the index of its item (0: none)
    http,         \* the HTTP GETs issued so far: [item, url]
    imported,     \* whether _import_fitz has been called
    opens,        \* number of fitz_module.open calls so far
    calls,        \* page indexes passed to doc.load_page for the current item
    extracted,    \* history: the items whose extraction returned
    failed        \* history: the items whose processing raised

vars == <<files, pc, i, url, filename, pdf_bytes, page_dicts,
          joined_text, err, resp, out, owner, http, imported, opens, calls,
          extracted, failed>>

----------------------------------------------------------------------------
(* Bounds of the model *)

MaxFiles == 2
MaxPages == 2

----------------------------------------------------------------------------
(* Python values *)

None == [t |-> "none"]
Str(s) == [t |-> "str", v |-> s]
Bytes(b) == [t |-> "bytes", v |-> b]
ByteArray(b) == [t |-> "bytearray", v |-> b]

\* str.isspace() of one code point
WhiteSpace == {9, 10, 11, 12, 13, 28, 29, 30, 31, 32, 133, 160, 5760,
               8232, 8233, 8239, 8287, 12288} \cup (8192..8202)

RECURSIVE LStrip(_)
LStrip(s) == IF s # <<>> /\ Head(s) \in WhiteSpace THEN LStrip(Tail(s)) ELSE s

RECURSIVE RStrip(_)
RStrip(s) ==
    IF s # <<>> /\ s[Len(s)] \in WhiteSpace
    THEN RStrip(SubSeq(s, 1, Len(s) - 1)) ELSE s

\* str.strip()
Strip(s) == RStrip(LStrip(s))

\* truth value of a Python value (None, str, bytes)
Truthy(x) ==
    CASE x.t = "none" -> FALSE
      [] x.t = "str" -> x.v # <<>>
      [] OTHER -> ~x.v.empty

----------------------------------------------------------------------------
(* PDF bytes and the HTTP environment *)

\* b"", bytes that are no PDF, and the bytes of a PDF with the given page texts
EmptyBytes == [empty |-> TRUE, valid |-> FALSE, pages |-> <<>>]
JunkBytes == [empty |-> FALSE, valid |-> FALSE, pages |-> <<>>]
Pdf(p) == [empty |-> FALSE, valid |-> TRUE, pages |-> p]

\* page texts: "aé" and "\ud800-" (a lone surrogate, then a hyphen)
TextA == <<97, 233>>
TextS == <<55296, 45>>

\* documents of up to MaxPages pages whose pages alternate between the two texts
PageSeqs ==
    {[k \in 1..n |-> IF (k + j) % 2 = 1 THEN TextA ELSE TextS] :
        n \in 0..MaxPages, j \in 0..1}

PdfBytes == {Pdf(p) : p \in PageSeqs}

\* the PDF an item embeds
SamplePdf == Pdf([k \in 1..MaxPages |-> IF k % 2 = 1 THEN TextA ELSE TextS])

\* Content-Type header values: missing, "PDF", "text"
ContentTypes == {None, Str(<<80, 68, 70>>), Str(<<116, 101, 120, 116>>)}

OkStatuses == {200, 304}
ErrorStatuses == {404, 500}

\* what requests.get(url) can produce: a transport error or a response
Responses ==
    {[t |-> "response", transport_error |-> TRUE, status |-> 0,
      ctype |-> None, content |-> EmptyBytes]}
    \cup {[t |-> "response", transport_error |-> FALSE, status |-> s,
           ctype |-> c, content |-> b] :
             s \in OkStatuses, c \in ContentTypes, b \in PdfBytes \cup {JunkBytes}}
    \cup {[t |-> "response", transport_error |-> FALSE, status |-> s,
           ctype |-> c, content |-> JunkBytes] :
             s \in ErrorStatuses, c \in ContentTypes}

----------------------------------------------------------------------------
(* Input items *)

\* " h/a?q ", "h/", "h/b", " ", " n.pdf "
UrlPadded == <<32, 104, 47, 97, 63, 113, 32>>
UrlSlash == <<104, 47>>
UrlPlain == <<104, 47, 98>>
Blank == <<32>>
NamePadded == <<32, 110, 46, 112, 100, 102, 32>>

DictItems ==
    {[kind |-> "dict", blob |-> b, url |-> u, remote_url |-> r, filename |-> f] :
        b \in {None, Bytes(SamplePdf), ByteArray(SamplePdf), Bytes(EmptyBytes)},
        u \in {None, Str(Blank), Str(UrlPadded)},
        r \in {None, Str(UrlSlash)},
        f \in {None, Str(Blank), Str(NamePadded)}}

\* objects with attributes (Dify File); a missing attribute reads as None
ObjItems ==
    {[kind |-> "obj", blob |-> b, url |-> u, remote_url |-> None, filename |-> f] :
        b \in {None, Bytes(EmptyBytes), Bytes(SamplePdf)},
        u \in {None, Str(UrlPlain)},
        f \in {None, Str(NamePadded)}}

Items == DictItems \cup ObjItems

\* the items that lists of several files are made of
ListItems ==
    {[kind |-> "dict", blob |-> Bytes(SamplePdf), url |-> Str(UrlPadded),
      remote_url |-> None, filename |-> None],
     [kind |-> "dict", blob |-> None, url |-> Str(Blank),
      remote_url |-> Str(UrlSlash), filename |-> Str(NamePadded)],
     [kind |-> "dict", blob |-> None, url |-> None,
      remote_url |-> None, filename |-> None],
     [kind |-> "obj", blob |-> Bytes(SamplePdf), url |-> Str(UrlPlain),
      remote_url |-> None, filename |-> Str(NamePadded)],
     [kind |-> "obj", blob |-> None, url |-> Str(UrlPlain),
      remote_url |-> None, filename |-> None]}

\* {} as passed to _infer_filename for a non-dict item
EmptyDict ==
    [kind |-> "dict", blob |-> None, url |-> None, remote_url |-> None, filename |-> None]

\* item.get(key) of a dict item
Get(item, key) == item[key]

\* values of tool_parameters.get("files"): missing, a non-empty non-list,
\* lists of up to MaxFiles items, and the list of each single item
FilesValues ==
    {None, [t |-> "other"]}
    \cup {[t |-> "list", v |-> l] : l \in UNION {[1..n -> ListItems] : n \in 0..MaxFiles}}
    \cup {[t |-> "list", v |-> <<it>>] : it \in Items}

----------------------------------------------------------------------------
(* Helpers of PymupdfTool *)

\* _import_fitz: pymupdf, else fitz, else the ImportError propagates
ImportFitz(mods) ==
    IF "pymupdf" \in mods THEN [raised |-> FALSE, module |-> "pymupdf"]
    ELSE IF "fitz" \in mods THEN [raised |-> FALSE, module |-> "fitz"]
    ELSE [raised |-> TRUE, module |-> ""]

\* _first: the first argument that is a str and not blank, stripped
RECURSIVE First(_)
First(vals) ==
    IF vals = <<>> THEN None
    ELSE IF Head(vals).t = "str" /\ Strip(Head(vals).v) # <<>>
         THEN Str(Strip(Head(vals).v))
         ELSE First(Tail(vals))

\* url.split("?", 1)[0]
RECURSIVE SplitQuery(_)
SplitQuery(s) ==
    IF s = <<>> \/ Head(s) = 63 THEN <<>> ELSE <<Head(s)>> \o SplitQuery(Tail(s))

\* os.path.basename: what follows the last "/"
RECURSIVE Basename(_)
Basename(s) ==
    IF s = <<>> \/ s[Len(s)] = 47 THEN <<>>
    ELSE Basename(SubSeq(s, 1, Len(s) - 1)) \o <<s[Len(s)]>>

DocumentPdf == <<100, 111, 99, 117, 109, 101, 110, 116, 46, 112, 100, 102>>
UnknownPdf == <<117, 110, 107, 110, 111, 119, 110, 46, 112, 100, 102>>

\* _infer_filename(item, url) for a dict item
InferFilename(item, u) ==
    LET name == Get(item, "filename") IN
    IF name.t = "str" /\ Strip(name.v) # <<>> THEN Strip(name.v)
    ELSE IF Truthy(u)
         THEN LET leaf == Basename(SplitQuery(u.v)) IN
              IF leaf # <<>> THEN leaf ELSE DocumentPdf
         ELSE DocumentPdf

\* str.lower() follows the Unicode 14 character database of CPython 3.11.
\* The code points with a one-code-point lowercase of their own, as runs
\* <<first, last, step, offset>>: every step-th code point from first to last
\* lowers to itself plus offset.
LowerRuns ==
    <<
       <<65, 90, 1, 32>>, <<192, 214, 1, 32>>, <<216, 222, 1, 32>>, <<256, 302, 2, 1>>, <<306, 310, 2, 1>>,
       <<313, 327, 2, 1>>, <<330, 374, 2, 1>>, <<376, 376, 1, -121>>, <<377, 381, 2, 1>>, <<385, 385, 1, 210>>,
       <<386, 388, 2, 1>>, <<390, 390, 1, 206>>, <<391, 391, 1, 1>>, <<393, 394, 1, 205>>, <<395, 395, 1, 1>>,
       <<398, 398, 1, 79>>, <<399, 399, 1, 202>>, <<400, 400, 1, 203>>, <<401, 401, 1, 1>>, <<403, 403, 1, 205>>,
       <<404, 404, 1, 207>>, <<406, 406, 1, 211>>, <<407, 407, 1, 209>>, <<408, 408, 1, 1>>, <<412, 412, 1, 211>>,
       <<413, 413, 1, 213>>, <<415, 415, 1, 214>>, <<416, 420, 2, 1>>, <<422, 422, 1, 218>>, <<423, 423, 1, 1>>,
       <<425, 425, 1, 218>>, <<428, 428, 1, 1>>, <<430, 430, 1, 218>>, <<431, 431, 1, 1>>, <<433, 434, 1, 217>>,
       <<435, 437, 2, 1>>, <<439, 439, 1, 219>>, <<440, 440, 1, 1>>, <<444, 444, 1, 1>>, <<452, 452, 1, 2>>,
       <<453, 453, 1, 1>>, <<455, 455, 1, 2>>, <<456, 456, 1, 1>>, <<458, 458, 1, 2>>, <<459, 475, 2, 1>>,
       <<478, 494, 2, 1>>, <<497, 497, 1, 2>>, <<498, 500, 2, 1>>, <<502, 502, 1, -97>>, <<503, 503, 1, -56>>,
       <<504, 542, 2, 1>>, <<544, 544, 1, -130>>, <<546, 562, 2, 1>>, <<570, 570, 1, 10795>>, <<571, 571, 1, 1>>,
       <<573, 573, 1, -163>>, <<574, 574, 1, 10792>>, <<577, 577, 1, 1>>, <<579, 579, 1, -195>>, <<580, 580, 1, 69>>,
       <<581, 581, 1, 71>>, <<582, 590, 2, 1>>, <<880, 882, 2, 1>>, <<886, 886, 1, 1>>, <<895, 895, 1, 116>>,
       <<902, 902, 1, 38>>, <<904, 906, 1, 37>>, <<908, 908, 1, 64>>, <<910, 911, 1, 63>>, <<913, 929, 1, 32>>,
       <<931, 939, 1, 32>>, <<975, 975, 1, 8>>, <<984, 1006, 2, 1>>, <<1012, 1012, 1, -60>>, <<1015, 1015, 1, 1>>,
       <<1017, 1017, 1, -7>>, <<1018, 1018, 1, 1>>, <<1021, 1023, 1, -130>>, <<1024, 1039, 1, 80>>, <<1040, 1071, 1, 32>>,
       <<1120, 1152, 2, 1>>, <<1162, 1214, 2, 1>>, <<1216, 1216, 1, 15>>, <<1217, 1229, 2, 1>>, <<1232, 1326, 2, 1>>,
       <<1329, 1366, 1, 48>>, <<4256, 4293, 1, 7264>>, <<4295, 4295, 1, 7264>>, <<4301, 4301, 1, 7264>>, <<5024, 5103, 1, 38864>>,
       <<5104, 5109, 1, 8>>, <<7312, 7354, 1, -3008>>, <<7357, 7359, 1, -3008>>, <<7680, 7828, 2, 1>>, <<7838, 7838, 1, -7615>>,
       <<7840, 7934, 2, 1>>, <<7944, 7951, 1, -8>>, <<7960, 7965, 1, -8>>, <<7976, 7983, 1, -8>>, <<7992, 7999, 1, -8>>,
       <<8008, 8013, 1, -8>>, <<8025, 8031, 2, -8>>, <<8040, 8047, 1, -8>>, <<8072, 8079, 1, -8>>, <<8088, 8095, 1, -8>>,
       <<8104, 8111, 1, -8>>, <<8120, 8121, 1, -8>>, <<8122, 8123, 1, -74>>, <<8124, 8124, 1, -9>>, <<8136, 8139, 1, -86>>,
       <<8140, 8140, 1, -9>>, <<8152, 8153, 1, -8>>, <<8154, 8155, 1, -100>>, <<8168, 8169, 1, -8>>, <<8170, 8171, 1, -112>>,
       <<8172, 8172, 1, -7>>, <<8184, 8185, 1, -128>>, <<8186, 8187, 1, -126>>, <<8188, 8188, 1, -9>>, <<8486, 8486, 1, -7517>>,
       <<8490, 8490, 1, -8383>>, <<8491, 8491, 1, -8262>>, <<8498, 8498, 1, 28>>, <<8544, 8559, 1, 16>>, <<8579, 8579, 1, 1>>,
       <<9398, 9423, 1, 26>>, <<11264, 11311, 1, 48>>, <<11360, 11360, 1, 1>>, <<11362, 11362, 1, -10743>>, <<11363, 11363, 1, -3814>>,
       <<11364, 11364, 1, -10727>>, <<11367, 11371, 2, 1>>, <<11373, 11373, 1, -10780>>, <<11374, 11374, 1, -10749>>, <<11375, 11375, 1, -10783>>,
       <<11376, 11376, 1, -10782>>, <<11378, 11378, 1, 1>>, <<11381, 11381, 1, 1>>, <<11390, 11391, 1, -10815>>, <<11392, 11490, 2, 1>>,
       <<11499, 11501, 2, 1>>, <<11506, 11506, 1, 1>>, <<42560, 42604, 2, 1>>, <<42624, 42650, 2, 1>>, <<42786, 42798, 2, 1>>,
       <<42802, 42862, 2, 1>>, <<42873, 42875, 2, 1>>, <<42877, 42877, 1, -35332>>, <<42878, 42886, 2, 1>>, <<42891, 42891, 1, 1>>,
       <<42893, 42893, 1, -42280>>, <<42896, 42898, 2, 1>>, <<42902, 42920, 2, 1>>, <<42922, 42922, 1, -42308>>, <<42923, 42923, 1, -42319>>,
       <<42924, 42924, 1, -42315>>, <<42925, 42925, 1, -42305>>, <<42926, 42926, 1, -42308>>, <<42928, 42928, 1, -42258>>, <<42929, 42929, 1, -42282>>,
       <<42930, 42930, 1, -42261>>, <<42931, 42931, 1, 928>>, <<42932, 42946, 2, 1>>, <<42948, 42948, 1, -48>>, <<42949, 42949, 1, -42307>>,
       <<42950, 42950, 1, -35384>>, <<42951, 42953, 2, 1>>, <<42960, 42960, 1, 1>>, <<42966, 42968, 2, 1>>, <<42997, 42997, 1, 1>>,
       <<65313, 65338, 1, 32>>, <<66560, 66599, 1, 40>>, <<66736, 66771, 1, 40>>, <<66928, 66938, 1, 39>>, <<66940, 66954, 1, 39>>,
       <<66956, 66962, 1, 39>>, <<66964, 66965, 1, 39>>, <<68736, 68786, 1, 64>>, <<71840, 71871, 1, 32>>, <<93760, 93791, 1, 32>>,
       <<125184, 125217, 1, 34>>
    >>

\* the ranges <<first, last>> of the case-ignorable code points
CaseIgnorableRanges ==
    <<
       <<39, 39>>, <<46, 46>>, <<58, 58>>, <<94, 94>>, <<96, 96>>, <<168, 168>>,
       <<173, 173>>, <<175, 175>>, <<180, 180>>, <<183, 184>>, <<688, 879>>, <<884, 885>>,
       <<890, 890>>, <<900, 901>>, <<903, 903>>, <<1155, 1161>>, <<1369, 1369>>, <<1375, 1375>>,
       <<1425, 1469>>, <<1471, 1471>>, <<1473, 1474>>, <<1476, 1477>>, <<1479, 1479>>, <<1524, 1524>>,
       <<1536, 1541>>, <<1552, 1562>>, <<1564, 1564>>, <<1600, 1600>>, <<1611, 1631>>, <<1648, 1648>>,
       <<1750, 1757>>, <<1759, 1768>>, <<1770, 1773>>, <<1807, 1807>>, <<1809, 1809>>, <<1840, 1866>>,
       <<1958, 1968>>, <<2027, 2037>>, <<2042, 2042>>, <<2045, 2045>>, <<2070, 2093>>, <<2137, 2139>>,
       <<2184, 2184>>, <<2192, 2193>>, <<2200, 2207>>, <<2249, 2306>>, <<2362, 2362>>, <<2364, 2364>>,
       <<2369, 2376>>, <<2381, 2381>>, <<2385, 2391>>, <<2402, 2403>>, <<2417, 2417>>, <<2433, 2433>>,
       <<2492, 2492>>, <<2497, 2500>>, <<2509, 2509>>, <<2530, 2531>>, <<2558, 2558>>, <<2561, 2562>>,
       <<2620, 2620>>, <<2625, 2626>>, <<2631, 2632>>, <<2635, 2637>>, <<2641, 2641>>, <<2672, 2673>>,
       <<2677, 2677>>, <<2689, 2690>>, <<2748, 2748>>, <<2753, 2757>>, <<2759, 2760>>, <<2765, 2765>>,
       <<2786, 2787>>, <<2810, 2815>>, <<2817, 2817>>, <<2876, 2876>>, <<2879, 2879>>, <<2881, 2884>>,
       <<2893, 2893>>, <<2901, 2902>>, <<2914, 2915>>, <<2946, 2946>>, <<3008, 3008>>, <<3021, 3021>>,
       <<3072, 3072>>, <<3076, 3076>>, <<3132, 3132>>, <<3134, 3136>>, <<3142, 3144>>, <<3146, 3149>>,
       <<3157, 3158>>, <<3170, 3171>>, <<3201, 3201>>, <<3260, 3260>>, <<3263, 3263>>, <<3270, 3270>>,
       <<3276, 3277>>, <<3298, 3299>>, <<3328, 3329>>, <<3387, 3388>>, <<3393, 3396>>, <<3405, 3405>>,
       <<3426, 3427>>, <<3457, 3457>>, <<3530, 3530>>, <<3538, 3540>>, <<3542, 3542>>, <<3633, 3633>>,
       <<3636, 3642>>, <<3654, 3662>>, <<3761, 3761>>, <<3764, 3772>>, <<3782, 3782>>, <<3784, 3789>>,
       <<3864, 3865>>, <<3893, 3893>>, <<3895, 3895>>, <<3897, 3897>>, <<3953, 3966>>, <<3968, 3972>>,
       <<3974, 3975>>, <<3981, 3991>>, <<3993, 4028>>, <<4038, 4038>>, <<4141, 4144>>, <<4146, 4151>>,
       <<4153, 4154>>, <<4157, 4158>>, <<4184, 4185>>, <<4190, 4192>>, <<4209, 4212>>, <<4226, 4226>>,
       <<4229, 4230>>, <<4237, 4237>>, <<4253, 4253>>, <<4348, 4348>>, <<4957, 4959>>, <<5906, 5908>>,
       <<5938, 5939>>, <<5970, 5971>>, <<6002, 6003>>, <<6068, 6069>>, <<6071, 6077>>, <<6086, 6086>>,
       <<6089, 6099>>, <<6103, 6103>>, <<6109, 6109>>, <<6155, 6159>>, <<6211, 6211>>, <<6277, 6278>>,
       <<6313, 6313>>, <<6432, 6434>>, <<6439, 6440>>, <<6450, 6450>>, <<6457, 6459>>, <<6679, 6680>>,
       <<6683, 6683>>, <<6742, 6742>>, <<6744, 6750>>, <<6752, 6752>>, <<6754, 6754>>, <<6757, 6764>>,
       <<6771, 6780>>, <<6783, 6783>>, <<6823, 6823>>, <<6832, 6862>>, <<6912, 6915>>, <<6964, 6964>>,
       <<6966, 6970>>, <<6972, 6972>>, <<6978, 6978>>, <<7019, 7027>>, <<7040, 7041>>, <<7074, 7077>>,
       <<7080, 7081>>, <<7083, 7085>>, <<7142, 7142>>, <<7144, 7145>>, <<7149, 7149>>, <<7151, 7153>>,
       <<7212, 7219>>, <<7222, 7223>>, <<7288, 7293>>, <<7376, 7378>>, <<7380, 7392>>, <<7394, 7400>>,
       <<7405, 7405>>, <<7412, 7412>>, <<7416, 7417>>, <<7468, 7530>>, <<7544, 7544>>, <<7579, 7679>>,
       <<8125, 8125>>, <<8127, 8129>>, <<8141, 8143>>, <<8157, 8159>>, <<8173, 8175>>, <<8189, 8190>>,
       <<8203, 8207>>, <<8216, 8217>>, <<8228, 8228>>, <<8231, 8231>>, <<8234, 8238>>, <<8288, 8292>>,
       <<8294, 8303>>, <<8305, 8305>>, <<8319, 8319>>, <<8336, 8348>>, <<8400, 8432>>, <<11388, 11389>>,
       <<11503, 11505>>, <<11631, 11631>>, <<11647, 11647>>, <<11744, 11775>>, <<11823, 11823>>, <<12293, 12293>>,
       <<12330, 12333>>, <<12337, 12341>>, <<12347, 12347>>, <<12441, 12446>>, <<12540, 12542>>, <<40981, 40981>>,
       <<42232, 42237>>, <<42508, 42508>>, <<42607, 42610>>, <<42612, 42621>>, <<42623, 42623>>, <<42652, 42655>>,
       <<42736, 42737>>, <<42752, 42785>>, <<42864, 42864>>, <<42888, 42890>>, <<42994, 42996>>, <<43000, 43001>>,
       <<43010, 43010>>, <<43014, 43014>>, <<43019, 43019>>, <<43045, 43046>>, <<43052, 43052>>, <<43204, 43205>>,
       <<43232, 43249>>, <<43263, 43263>>, <<43302, 43309>>, <<43335, 43345>>, <<43392, 43394>>, <<43443, 43443>>,
       <<43446, 43449>>, <<43452, 43453>>, <<43471, 43471>>, <<43493, 43494>>, <<43561, 43566>>, <<43569, 43570>>,
       <<43573, 43574>>, <<43587, 43587>>, <<43596, 43596>>, <<43632, 43632>>, <<43644, 43644>>, <<43696, 43696>>,
       <<43698, 43700>>, <<43703, 43704>>, <<43710, 43711>>, <<43713, 43713>>, <<43741, 43741>>, <<43756, 43757>>,
       <<43763, 43764>>, <<43766, 43766>>, <<43867, 43871>>, <<43881, 43883>>, <<44005, 44005>>, <<44008, 44008>>,
       <<44013, 44013>>, <<64286, 64286>>, <<64434, 64450>>, <<65024, 65039>>, <<65043, 65043>>, <<65056, 65071>>,
       <<65106, 65106>>, <<65109, 65109>>, <<65279, 65279>>, <<65287, 65287>>, <<65294, 65294>>, <<65306, 65306>>,
       <<65342, 65342>>, <<65344, 65344>>, <<65392, 65392>>, <<65438, 65439>>, <<65507, 65507>>, <<65529, 65531>>,
       <<66045, 66045>>, <<66272, 66272>>, <<66422, 66426>>, <<67456, 67461>>, <<67463, 67504>>, <<67506, 67514>>,
       <<68097, 68099>>, <<68101, 68102>>, <<68108, 68111>>, <<68152, 68154>>, <<68159, 68159>>, <<68325, 68326>>,
       <<68900, 68903>>, <<69291, 69292>>, <<69446, 69456>>, <<69506, 69509>>, <<69633, 69633>>, <<69688, 69702>>,
       <<69744, 69744>>, <<69747, 69748>>, <<69759, 69761>>, <<69811, 69814>>, <<69817, 69818>>, <<69821, 69821>>,
       <<69826, 69826>>, <<69837, 69837>>, <<69888, 69890>>, <<69927, 69931>>, <<69933, 69940>>, <<70003, 70003>>,
       <<70016, 70017>>, <<70070, 70078>>, <<70089, 70092>>, <<70095, 70095>>, <<70191, 70193>>, <<70196, 70196>>,
       <<70198, 70199>>, <<70206, 70206>>, <<70367, 70367>>, <<70371, 70378>>, <<70400, 70401>>, <<70459, 70460>>,
       <<70464, 70464>>, <<70502, 70508>>, <<70512, 70516>>, <<70712, 70719>>, <<70722, 70724>>, <<70726, 70726>>,
       <<70750, 70750>>, <<70835, 70840>>, <<70842, 70842>>, <<70847, 70848>>, <<70850, 70851>>, <<71090, 71093>>,
       <<71100, 71101>>, <<71103, 71104>>, <<71132, 71133>>, <<71219, 71226>>, <<71229, 71229>>, <<71231, 71232>>,
       <<71339, 71339>>, <<71341, 71341>>, <<71344, 71349>>, <<71351, 71351>>, <<71453, 71455>>, <<71458, 71461>>,
       <<71463, 71467>>, <<71727, 71735>>, <<71737, 71738>>, <<71995, 71996>>, <<71998, 71998>>, <<72003, 72003>>,
       <<72148, 72151>>, <<72154, 72155>>, <<72160, 72160>>, <<72193, 72202>>, <<72243, 72248>>, <<72251, 72254>>,
       <<72263, 72263>>, <<72273, 72278>>, <<72281, 72283>>, <<72330, 72342>>, <<72344, 72345>>, <<72752, 72758>>,
       <<72760, 72765>>, <<72767, 72767>>, <<72850, 72871>>, <<72874, 72880>>, <<72882, 72883>>, <<72885, 72886>>,
       <<73009, 73014>>, <<73018, 73018>>, <<73020, 73021>>, <<73023, 73029>>, <<73031, 73031>>, <<73104, 73105>>,
       <<73109, 73109>>, <<73111, 73111>>, <<73459, 73460>>, <<78896, 78904>>, <<92912, 92916>>, <<92976, 92982>>,
       <<92992, 92995>>, <<94031, 94031>>, <<94095, 94111>>, <<94176, 94177>>, <<94179, 94180>>, <<110576, 110579>>,
       <<110581, 110587>>, <<110589, 110590>>, <<113821, 113822>>, <<113824, 113827>>, <<118528, 118573>>, <<118576, 118598>>,
       <<119143, 119145>>, <<119155, 119170>>, <<119173, 119179>>, <<119210, 119213>>, <<119362, 119364>>, <<121344, 121398>>,
       <<121403, 121452>>, <<121461, 121461>>, <<121476, 121476>>, <<121499, 121503>>, <<121505, 121519>>, <<122880, 122886>>,
       <<122888, 122904>>, <<122907, 122913>>, <<122915, 122916>>, <<122918, 122922>>, <<123184, 123197>>, <<123566, 123566>>,
       <<123628, 123631>>, <<125136, 125142>>, <<125252, 125259>>, <<127995, 127999>>, <<917505, 917505>>, <<917536, 917631>>,
       <<917760, 917999>>
    >>

\* the ranges <<first, last>> of the cased code points that are not case-ignorable
CasedRanges ==
    <<
       <<65, 90>>, <<97, 122>>, <<170, 170>>, <<181, 181>>, <<186, 186>>, <<192, 214>>,
       <<216, 246>>, <<248, 442>>, <<444, 447>>, <<452, 659>>, <<661, 687>>, <<880, 883>>,
       <<886, 887>>, <<891, 893>>, <<895, 895>>, <<902, 902>>, <<904, 906>>, <<908, 908>>,
       <<910, 929>>, <<931, 1013>>, <<1015, 1153>>, <<1162, 1327>>, <<1329, 1366>>, <<1376, 1416>>,
       <<4256, 4293>>, <<4295, 4295>>, <<4301, 4301>>, <<4304, 4346>>, <<4349, 4351>>, <<5024, 5109>>,
       <<5112, 5117>>, <<7296, 7304>>, <<7312, 7354>>, <<7357, 7359>>, <<7424, 7467>>, <<7531, 7543>>,
       <<7545, 7578>>, <<7680, 7957>>, <<7960, 7965>>, <<7968, 8005>>, <<8008, 8013>>, <<8016, 8023>>,
       <<8025, 8025>>, <<8027, 8027>>, <<8029, 8029>>, <<8031, 8061>>, <<8064, 8116>>, <<8118, 8124>>,
       <<8126, 8126>>, <<8130, 8132>>, <<8134, 8140>>, <<8144, 8147>>, <<8150, 8155>>, <<8160, 8172>>,
       <<8178, 8180>>, <<8182, 8188>>, <<8450, 8450>>, <<8455, 8455>>, <<8458, 8467>>, <<8469, 8469>>,
       <<8473, 8477>>, <<8484, 8484>>, <<8486, 8486>>, <<8488, 8488>>, <<8490, 8493>>, <<8495, 8500>>,
       <<8505, 8505>>, <<8508, 8511>>, <<8517, 8521>>, <<8526, 8526>>, <<8544, 8575>>, <<8579, 8580>>,
       <<9398, 9449>>, <<11264, 11387>>, <<11390, 11492>>, <<11499, 11502>>, <<11506, 11507>>, <<11520, 11557>>,
       <<11559, 11559>>, <<11565, 11565>>, <<42560, 42605>>, <<42624, 42651>>, <<42786, 42863>>, <<42865, 42887>>,
       <<42891, 42894>>, <<42896, 42954>>, <<42960, 42961>>, <<42963, 42963>>, <<42965, 42969>>, <<42997, 42998>>,
       <<43002, 43002>>, <<43824, 43866>>, <<43872, 43880>>, <<43888, 43967>>, <<64256, 64262>>, <<64275, 64279>>,
       <<65313, 65338>>, <<65345, 65370>>, <<66560, 66639>>, <<66736, 66771>>, <<66776, 66811>>, <<66928, 66938>>,
       <<66940, 66954>>, <<66956, 66962>>, <<66964, 66965>>, <<66967, 66977>>, <<66979, 66993>>, <<66995, 67001>>,
       <<67003, 67004>>, <<68736, 68786>>, <<68800, 68850>>, <<71840, 71903>>, <<93760, 93823>>, <<119808, 119892>>,
       <<119894, 119964>>, <<119966, 119967>>, <<119970, 119970>>, <<119973, 119974>>, <<119977, 119980>>, <<119982, 119993>>,
       <<119995, 119995>>, <<119997, 120003>>, <<120005, 120069>>, <<120071, 120074>>, <<120077, 120084>>, <<120086, 120092>>,
       <<120094, 120121>>, <<120123, 120126>>, <<120128, 120132>>, <<120134, 120134>>, <<120138, 120144>>, <<120146, 120485>>,
       <<120488, 120512>>, <<120514, 120538>>, <<120540, 120570>>, <<120572, 120596>>, <<120598, 120628>>, <<120630, 120654>>,
       <<120656, 120686>>, <<120688, 120712>>, <<120714, 120744>>, <<120746, 120770>>, <<120772, 120779>>, <<122624, 122633>>,
       <<122635, 122654>>, <<125184, 125251>>, <<127280, 127305>>, <<127312, 127337>>, <<127344, 127369>>
    >>

InRanges(c, ranges) == \E k \in 1..Len(ranges) : c >= ranges[k][1] /\ c <= ranges[k][2]

InRun(c, run) == c >= run[1] /\ c <= run[2] /\ (c - run[1]) % run[3] = 0

\* the lowercase of one code point outside any context
LowerOf(c) ==
    IF \E k \in 1..Len(LowerRuns) : InRun(c, LowerRuns[k])
    THEN c + LowerRuns[CHOOSE k \in 1..Len(LowerRuns) : InRun(c, LowerRuns[k])][4]
    ELSE c

\* a capital sigma at position k ends a word: a cased code point comes before
\* it and none after it, case-ignorable code points apart
FinalSigma(s, k) ==
    LET before == {j \in 1..(k - 1) : ~InRanges(s[j], CaseIgnorableRanges)}
        after == {j \in (k + 1)..Len(s) : ~InRanges(s[j], CaseIgnorableRanges)}
    IN
    /\ before # {}
    /\ InRanges(s[CHOOSE j \in before : \A m \in before : m <= j], CasedRanges)
    /\ \/ after = {}
       \/ ~InRanges(s[CHOOSE j \in after : \A m \in after : j <= m], CasedRanges)

\* the lowercase of the code point at position k of s
LowerAt(s, k) ==
    IF s[k] = 931 THEN <<IF FinalSigma(s, k) THEN 962 ELSE 963>>
    ELSE IF s[k] = 304 THEN <<105, 775>>
    ELSE <<LowerOf(s[k])>>

RECURSIVE LowerFrom(_, _)
LowerFrom(s, k) == IF k > Len(s) THEN <<>> ELSE LowerAt(s, k) \o LowerFrom(s, k + 1)

\* str.lower()
Lower(s) == LowerFrom(s, 1)

\* sub in s
Contains(s, sub) ==
    \E k \in 0..(Len(s) - Len(sub)) : SubSeq(s, k + 1, k + Len(sub)) = sub

\* resp.raise_for_status()
RaiseForStatus(r) == r.status >= 400 /\ r.status < 600

\* EnsurePdfBytes had the URL been tried before the embedded bytes
EnsurePdfBytesUrlFirst(item, r) ==
    LET blob == IF item.kind = "obj" THEN item.blob ELSE None
        dblob == Get(item, "blob")
        u == IF item.kind = "dict"
             THEN First(<<Get(item, "url"), Get(item, "remote_url")>>)
             ELSE None
    IN
    IF Truthy(u)
    THEN IF r.transport_error
         THEN [raised |-> TRUE, value |-> EmptyBytes, e |-> "RequestException",
               gets |-> <<u.v>>, debug |-> FALSE]
         ELSE IF RaiseForStatus(r)
         THEN [raised |-> TRUE, value |-> EmptyBytes, e |-> "HTTPError",
               gets |-> <<u.v>>, debug |-> FALSE]
         ELSE [raised |-> FALSE, value |-> r.content, e |-> "", gets |-> <<u.v>>,
               debug |-> FALSE]
    ELSE IF Truthy(blob)
    THEN [raised |-> FALSE, value |-> blob.v, e |-> "", gets |-> <<>>, debug |-> FALSE]
    ELSE IF item.kind = "dict" /\ dblob.t \in {"bytes", "bytearray"}
    THEN [raised |-> FALSE, value |-> dblob.v, e |-> "", gets |-> <<>>, debug |-> FALSE]
    ELSE [raised |-> TRUE, value |-> EmptyBytes, e |-> "ValueError: No usable PDF source found",
          gets |-> <<>>, debug |-> FALSE]

\* EnsurePdfBytes had a Content-Type without "pdf" been refused
EnsurePdfBytesStrict(item, r) ==
    LET blob == IF item.kind = "obj" THEN item.blob ELSE None
        dblob == Get(item, "blob")
        u == IF item.kind = "dict"
             THEN First(<<Get(item, "url"), Get(item, "remote_url")>>)
             ELSE None
        ctype == IF r.ctype.t = "str" THEN r.ctype.v ELSE <<>>
    IN
    IF Truthy(blob)
    THEN [raised |-> FALSE, value |-> blob.v, e |-> "", gets |-> <<>>, debug |-> FALSE]
    ELSE IF item.kind = "dict" /\ dblob.t \in {"bytes", "bytearray"}
    THEN [raised |-> FALSE, value |-> dblob.v, e |-> "", gets |-> <<>>, debug |-> FALSE]
    ELSE IF ~Truthy(u)
    THEN [raised |-> TRUE, value |-> EmptyBytes, e |-> "ValueError: No usable PDF source found",
          gets |-> <<>>, debug |-> FALSE]
    ELSE IF r.transport_error
    THEN [raised |-> TRUE, value |-> EmptyBytes, e |-> "RequestException",
          gets |-> <<u.v>>, debug |-> FALSE]
    ELSE IF RaiseForStatus(r)
    THEN [raised |-> TRUE, value |-> EmptyBytes, e |-> "HTTPError",
          gets |-> <<u.v>>, debug |-> FALSE]
    ELSE IF ~Contains(Lower(ctype), <<112, 100, 102>>)
    THEN [raised |-> TRUE, value |-> EmptyBytes, e |-> "ValueError: not a PDF",
          gets |-> <<u.v>>, debug |-> TRUE]
    ELSE [raised |-> FALSE, value |-> r.content, e |-> "", gets |-> <<u.v>>,
          debug |-> FALSE]

\* _ensure_pdf_bytes(item) when requests.get answers r:
\* the bytes returned or the exception raised, the GETs issued, and whether
\* the Content-Type remark was logged
EnsurePdfBytes(item, r) ==
    LET blob == IF item.kind = "obj" THEN item.blob ELSE None
        dblob == Get(item, "blob")
        u == IF item.kind = "dict"
             THEN First(<<Get(item, "url"), Get(item, "remote_url")>>)
             ELSE None
        ctype == IF r.ctype.t = "str" THEN r.ctype.v ELSE <<>>
    IN
    IF Truthy(blob)
    THEN [raised |-> FALSE, value |-> blob.v, e |-> "", gets |-> <<>>, debug |-> FALSE]
    ELSE IF item.kind = "dict" /\ dblob.t \in {"bytes", "bytearray"}
    THEN [raised |-> FALSE, value |-> dblob.v, e |-> "", gets |-> <<>>, debug |-> FALSE]
    ELSE IF ~Truthy(u)
    THEN [raised |-> TRUE, value |-> EmptyBytes, e |-> "ValueError: No usable PDF source found",
          gets |-> <<>>, debug |-> FALSE]
    ELSE IF r.transport_error
    THEN [raised |-> TRUE, value |-> EmptyBytes, e |-> "RequestException",
          gets |-> <<u.v>>, debug |-> FALSE]
    ELSE IF RaiseForStatus(r)
    THEN [raised |-> TRUE, value |-> EmptyBytes, e |-> "HTTPError",
          gets |-> <<u.v>>, debug |-> FALSE]
    ELSE [raised |-> FALSE, value |-> r.content, e |-> "", gets |-> <<u.v>>,
          debug |-> ~Contains(Lower(ctype), <<112, 100, 102>>)]

\* the for loop of _extract_text_from_pdf_bytes from page k on (0-based)
RECURSIVE LoadPages(_, _)
LoadPages(doc, k) ==
    IF k >= Len(doc.pages) THEN [pages |-> <<>>, calls |-> <<>>]
    ELSE LET rest == LoadPages(doc, k + 1) IN
         [pages |-> <<[text |-> doc.pages[k + 1]]>> \o rest.pages,
          calls |-> <<k>> \o rest.calls]

\* _extract_text_from_pdf_bytes: fitz open fails on bytes that are no PDF
ExtractTextFromPdfBytes(b) ==
    IF ~b.valid
    THEN [raised |-> TRUE, e |-> "FileDataError", pages |-> <<>>, calls |-> <<>>]
    ELSE LET r == LoadPages(b, 0) IN
         [raised |-> FALSE, e |-> "", pages |-> r.pages, calls |-> r.calls]

\* AttachMetadata had enumerate started at 0
AttachMetadataFromZero(pages, fname) ==
    [k \in 1..Len(pages) |->
        [text |-> pages[k].text, metadata |-> [page |-> k - 1, file_name |-> fname]]]

\* for idx, pd in enumerate(page_dicts, start=1): pd["metadata"] = ...
AttachMetadata(pages, fname) ==
    [k \in 1..Len(pages) |->
        [text |-> pages[k].text, metadata |-> [page |-> k, file_name |-> fname]]]

PageBreak == <<10, 10, 45, 45, 45, 80, 65, 71, 69, 32, 66, 82, 69, 65, 75, 45, 45, 45, 10, 10>>

\* Join had the separator been written after every text
RECURSIVE JoinTrailing(_, _)
JoinTrailing(sep, texts) ==
    IF texts = <<>> THEN <<>>
    ELSE texts[1] \o sep \o JoinTrailing(sep, Tail(texts))

\* sep.join(texts)
RECURSIVE Join(_, _)
Join(sep, texts) ==
    IF texts = <<>> THEN <<>>
    ELSE IF Len(texts) = 1 THEN texts[1]
    ELSE texts[1] \o sep \o Join(sep, Tail(texts))

\* EncodeChar had the text been encoded as Latin-1 where it fits
EncodeCharLatin1(c) ==
    IF c < 256 THEN <<c>>
    ELSE IF c \in 55296..57343 THEN <<>>
    ELSE IF c < 2048 THEN <<192 + (c \div 64), 128 + (c % 64)>>
    ELSE IF c < 65536
         THEN <<224 + (c \div 4096), 128 + ((c \div 64) % 64), 128 + (c % 64)>>
    ELSE <<240 + (c \div 262144), 128 + ((c \div 4096) % 64),
           128 + ((c \div 64) % 64), 128 + (c % 64)>>

\* the UTF-8 bytes of one code point; errors="ignore" drops a surrogate
EncodeChar(c) ==
    IF c < 128 THEN <<c>>
    ELSE IF c < 2048 THEN <<192 + (c \div 64), 128 + (c % 64)>>
    ELSE IF c \in 55296..57343 THEN <<>>
    ELSE IF c < 65536
         THEN <<224 + (c \div 4096), 128 + ((c \div 64) % 64), 128 + (c % 64)>>
    ELSE <<240 + (c \div 262144), 128 + ((c \div 4096) % 64),
           128 + ((c \div 64) % 64), 128 + (c % 64)>>

\* s.encode("utf-8", errors="ignore")
RECURSIVE EncodeUtf8Ignore(_)
EncodeUtf8Ignore(s) ==
    IF s = <<>> THEN <<>> ELSE EncodeChar(Head(s)) \o EncodeUtf8Ignore(Tail(s))

----------------------------------------------------------------------------
(* Messages of the host framework *)

\* create_text_message of the joined text
TextMessage(s) == [type |-> "text", kind |-> "extracted", text |-> s]

\* create_text_message of a fixed notice or of f"Error processing file: {e}"
NoticeMessage(kind, e) == [type |-> "text", kind |-> kind, e |-> e]

\* create_json_message({filename: page_dicts})
JsonMessage(fname, pages) == [type |-> "json", kind |-> "pages", key |-> fname, value |-> pages]

\* create_json_message({fname: {"error": str(e)}})
JsonErrorMessage(fname, e) == [type |-> "json", kind |-> "error", key |-> fname, error |-> e]

\* create_blob_message(data, meta={"mime_type": "text/plain"})
BlobMessage(data) == [type |-> "blob", blob |-> data, mime_type |-> "text/plain"]

----------------------------------------------------------------------------
(* The generator _invoke *)

Item == files.v[i]

Init ==
    /\ files \in FilesValues
    /\ pc = "start"
    /\ i = 0
    /\ url = None
    /\ filename = <<>>
    /\ pdf_bytes = None
    /\ page_dicts = <<>>
    /\ joined_text = <<>>
    /\ err = ""
    /\ resp = None
    /\ out = <<>>
    /\ owner = <<>>
    /\ http = <<>>
    /\ imported = FALSE
    /\ opens = 0
    /\ calls = <<>>
    /\ extracted = {}
    /\ failed = {}

\* not files or not isinstance(files, list)
NoFiles(f) == f.t # "list" \/ f.v = <<>>

\* the for statement moves to the next item or the generator returns
NextItem ==
    /\ i' = i + 1
    /\ pc' = IF i + 1 <= Len(files.v) THEN "item" ELSE "done"

\* Invoke had the generator gone on to the import after the notice
InvokeNoReturn ==
    /\ pc = "start"
    /\ IF NoFiles(files)
       THEN /\ out' = Append(out, NoticeMessage("no_files", ""))
            /\ owner' = Append(owner, 0)
       ELSE UNCHANGED <<out, owner>>
    /\ pc' = "import"
    /\ UNCHANGED <<files, i, url, filename, pdf_bytes, page_dicts, joined_text,
                   err, resp, http, imported, opens, calls, extracted, failed>>

\* lines 121-123: without files, one text message, yielded before the return
Invoke ==
    /\ pc = "start"
    /\ IF NoFiles(files)
       THEN /\ out' = Append(out, NoticeMessage("no_files", ""))
            /\ owner' = Append(owner, 0)
            /\ pc' = "return"
       ELSE /\ pc' = "import"
            /\ UNCHANGED <<out, owner>>
    /\ UNCHANGED <<files, i, url, filename, pdf_bytes, page_dicts, joined_text,
                   err, resp, http, imported, opens, calls, extracted, failed>>

\* lines 126-132: import PyMuPDF, or one text message, yielded before the return
Import ==
    /\ pc = "import"
    /\ \E mods \in SUBSET {"pymupdf", "fitz"} :
         LET r == ImportFitz(mods) IN
         IF r.raised
         THEN /\ out' = Append(out, NoticeMessage("import_error", "ImportError"))
              /\ owner' = Append(owner, 0)
              /\ pc' = "return"
              /\ i' = i
         ELSE /\ pc' = "item"
              /\ i' = 1
              /\ UNCHANGED <<out, owner>>
    /\ imported' = TRUE
    /\ UNCHANGED <<files, url, filename, pdf_bytes, page_dicts, joined_text,
                   err, resp, http, opens, calls, extracted, failed>>

\* lines 124 and 133: resumed after its notice, the generator returns
Return ==
    /\ pc = "return"
    /\ pc' = "done"
    /\ UNCHANGED <<files, i, url, filename, pdf_bytes, page_dicts, joined_text,
                   err, resp, out, owner, http, imported, opens, calls, extracted,
                   failed>>

\* lines 139-143: the url of the item
ItemUrl(item) ==
    IF item.kind = "dict"
    THEN First(<<Get(item, "url"), Get(item, "remote_url")>>)
    ELSE item.url

\* line 145: the filename of the item
ItemFilename(item) ==
    InferFilename(IF item.kind = "dict" THEN item ELSE EmptyDict, ItemUrl(item))

\* the response of a call that never reaches requests.get
Unused == CHOOSE r \in Responses : TRUE

\* lines 138-149: url, filename and the bytes of the item
Resolve ==
    /\ pc = "item"
    /\ \E r \in Responses :
         LET res == EnsurePdfBytes(Item, r) IN
         /\ (res.gets = <<>>) => r = Unused
         /\ url' = ItemUrl(Item)
         /\ filename' = ItemFilename(Item)
         /\ resp' = IF res.gets = <<>> THEN None ELSE r
         /\ http' = http \o [k \in 1..Len(res.gets) |-> [item |-> i, url |-> res.gets[k]]]
         /\ IF res.raised
            THEN /\ err' = res.e
                 /\ failed' = failed \cup {i}
                 /\ pc' = "except"
                 /\ UNCHANGED pdf_bytes
            ELSE /\ pdf_bytes' = Bytes(res.value)
                 /\ pc' = "extract"
                 /\ UNCHANGED <<err, failed>>
    /\ calls' = <<>>
    /\ UNCHANGED <<files, i, page_dicts, joined_text, out, owner, imported, opens,
                   extracted>>

\* lines 152-159: the page records and the joined text
Extract ==
    /\ pc = "extract"
    /\ LET res == ExtractTextFromPdfBytes(pdf_bytes.v) IN
       /\ opens' = opens + 1
       /\ calls' = res.calls
       /\ IF res.raised
          THEN /\ err' = res.e
               /\ failed' = failed \cup {i}
               /\ pc' = "except"
               /\ UNCHANGED <<page_dicts, joined_text, extracted>>
          ELSE /\ page_dicts' = AttachMetadata(res.pages, filename)
               /\ joined_text' = Join(PageBreak, [k \in 1..Len(res.pages) |-> res.pages[k].text])
               /\ extracted' = extracted \cup {i}
               /\ pc' = "yield_text"
               /\ UNCHANGED <<err, failed>>
    /\ resp' = None
    /\ UNCHANGED <<files, i, url, filename, pdf_bytes, out, owner, http, imported>>

\* line 162
YieldText ==
    /\ pc = "yield_text"
    /\ out' = Append(out, TextMessage(joined_text))
    /\ owner' = Append(owner, i)
    /\ pc' = "yield_json"
    /\ UNCHANGED <<files, i, url, filename, pdf_bytes, page_dicts, joined_text,
                   err, resp, http, imported, opens, calls, extracted, failed>>

\* line 165
YieldJson ==
    /\ pc = "yield_json"
    /\ out' = Append(out, JsonMessage(filename, page_dicts))
    /\ owner' = Append(owner, i)
    /\ pc' = "yield_blob"
    /\ UNCHANGED <<files, i, url, filename, pdf_bytes, page_dicts, joined_text,
                   err, resp, http, imported, opens, calls, extracted, failed>>

\* lines 168-171: the generator stays suspended at the yield of the blob
YieldBlob ==
    /\ pc = "yield_blob"
    /\ out' = Append(out, BlobMessage(EncodeUtf8Ignore(joined_text)))
    /\ owner' = Append(owner, i)
    /\ pc' = "after_blob"
    /\ UNCHANGED <<files, i, url, filename, pdf_bytes, page_dicts, joined_text,
                   err, resp, http, imported, opens, calls, extracted, failed>>

\* line 136: resumed after the blob, the for loop advances
ResumeAfterBlob ==
    /\ pc = "after_blob"
    /\ NextItem
    /\ UNCHANGED <<files, url, filename, pdf_bytes, page_dicts, joined_text,
                   err, resp, out, owner, http, imported, opens, calls, extracted,
                   failed>>

\* lines 173-177
YieldErrorText ==
    /\ pc = "except"
    /\ out' = Append(out, NoticeMessage("error", err))
    /\ owner' = Append(owner, i)
    /\ pc' = "yield_error_json"
    /\ resp' = None
    /\ UNCHANGED <<files, i, url, filename, pdf_bytes, page_dicts, joined_text,
                   err, http, imported, opens, calls, extracted, failed>>

\* lines 178-180: the key of the error mapping
ErrorFilename(item) ==
    IF item.kind = "dict"
    THEN InferFilename(item, First(<<Get(item, "url"), Get(item, "remote_url")>>))
    ELSE UnknownPdf

\* line 181: the generator stays suspended at the yield of the error mapping
YieldErrorJson ==
    /\ pc = "yield_error_json"
    /\ out' = Append(out, JsonErrorMessage(ErrorFilename(Item), err))
    /\ owner' = Append(owner, i)
    /\ pc' = "after_error_json"
    /\ UNCHANGED <<files, i, url, filename, pdf_bytes, page_dicts, joined_text,
                   err, resp, http, imported, opens, calls, extracted, failed>>

\* ResumeAfterErrorJson had the except clause ended the generator
ResumeAfterErrorJsonReturn ==
    /\ pc = "after_error_json"
    /\ err' = ""
    /\ i' = i + 1
    /\ pc' = "done"
    /\ UNCHANGED <<files, url, filename, pdf_bytes, page_dicts, joined_text,
                   resp, out, owner, http, imported, opens, calls, extracted,
                   failed>>

\* lines 173 and 136: resumed after the error mapping, the except clause ends,
\* which unbinds e, and the for loop advances
ResumeAfterErrorJson ==
    /\ pc = "after_error_json"
    /\ err' = ""
    /\ NextItem
    /\ UNCHANGED <<files, url, filename, pdf_bytes, page_dicts, joined_text,
                   resp, out, owner, http, imported, opens, calls, extracted,
                   failed>>

Next ==
    \/ Invoke
    \/ Import
    \/ Return
    \/ Resolve
    \/ Extract
    \/ YieldText
    \/ YieldJson
    \/ YieldBlob
    \/ ResumeAfterBlob
    \/ YieldErrorText
    \/ YieldErrorJson
    \/ ResumeAfterErrorJson

Spec == Init /\ [][Next]_vars

----------------------------------------------------------------------------
(* Vocabulary of the properties *)

\* the messages yielded for item k, in the order they were yielded
RECURSIVE MessagesFrom(_, _)
MessagesFrom(k, j) ==
    IF j > Len(out) THEN <<>>
    ELSE (IF owner[j] = k THEN <<out[j]>> ELSE <<>>) \o MessagesFrom(k, j + 1)

MessagesOf(k) == MessagesFrom(k, 1)

Types(msgs) == [j \in 1..Len(msgs) |-> msgs[j].type]

IsSurrogate(c) == c \in 55296..57343

NotSurrogate(c) == ~IsSurrogate(c)

\* the code points a UTF-8 byte string stands for; -1 ends an ill-formed one
RECURSIVE DecodeUtf8(_)
DecodeUtf8(b) ==
    IF b = <<>> THEN <<>>
    ELSE LET h == Head(b)
             n == IF h < 128 THEN 1
                  ELSE IF h \in 192..223 THEN 2
                  ELSE IF h \in 224..239 THEN 3
                  ELSE IF h \in 240..247 THEN 4
                  ELSE 0
         IN
         IF n = 0 \/ Len(b) < n THEN <<-1>>
         ELSE IF \E j \in 2..n : b[j] \notin 128..191 THEN <<-1>>
         ELSE LET c == CASE n = 1 -> h
                         [] n = 2 -> (h - 192) * 64 + (b[2] - 128)
                         [] n = 3 -> (h - 224) * 4096 + (b[2] - 128) * 64 + (b[3] - 128)
                         [] n = 4 -> (h - 240) * 262144 + (b[2] - 128) * 4096
                                     + (b[3] - 128) * 64 + (b[4] - 128)
              IN <<c>> \o DecodeUtf8(SubSeq(b, n + 1, Len(b)))

\* every message of item k has been yielded
Finished(k) ==
    /\ k >= 1
    /\ k < i \/ (k = i /\ pc \in {"after_blob", "after_error_json"})

\* the item carries bytes of its own
Embedded(item) ==
    \/ item.kind = "obj" /\ item.blob.t = "bytes" /\ ~item.blob.v.empty
    \/ item.kind = "dict" /\ item.blob.t \in {"bytes", "bytearray"}

NonBlank(x) == x.t = "str" /\ \E k \in 1..Len(x.v) : x.v[k] \notin WhiteSpace

HasUrl(item) == NonBlank(item.url) \/ NonBlank(item.remote_url)

\* the GETs issued for item k
RECURSIVE GetsFrom(_, _)
GetsFrom(k, j) ==
    IF j > Len(http) THEN <<>>
    ELSE (IF http[j].item = k THEN <<http[j].url>> ELSE <<>>) \o GetsFrom(k, j + 1)

GetsOf(k) == GetsFrom(k, 1)

\* the for loop is past _ensure_pdf_bytes for the current item
Resolved == pc \in {"extract", "except", "yield_text", "yield_json", "yield_blob",
                    "after_blob", "yield_error_json", "after_error_json"}

----------------------------------------------------------------------------
(* C1 *)

\* C1 as stated: every finished item whose extraction returned has exactly the
\* messages text, JSON, blob, in this order, and the blob is the UTF-8 encoding
\* of the string of the text message (it decodes to that string).
C1_AsStated ==
    \A k \in extracted : Finished(k) =>
        LET m == MessagesOf(k) IN
        /\ Types(m) = <<"text", "json", "blob">>
        /\ DecodeUtf8(m[3].blob) = m[1].text

\* C1, amended: every finished item whose extraction returned has exactly the
\* messages text, JSON, blob, in this order, and the blob is the UTF-8 encoding
\* of the string of the text message with its surrogate code points left out.
C1_ThreeMessages ==
    \A k \in extracted : Finished(k) =>
        LET m == MessagesOf(k) IN
        /\ Types(m) = <<"text", "json", "blob">>
        /\ m[1].kind = "extracted"
        /\ m[2].kind = "pages"
        /\ DecodeUtf8(m[3].blob) = SelectSeq(m[1].text, NotSurrogate)

C1_Witness ==
    \E k \in extracted :
        /\ Finished(k)
        /\ \E j \in 1..Len(MessagesOf(k)[1].text) :
              IsSurrogate(MessagesOf(k)[1].text[j])
        /\ \E j \in 1..Len(MessagesOf(k)[1].text) :
              MessagesOf(k)[1].text[j] > 127 /\ NotSurrogate(MessagesOf(k)[1].text[j])

----------------------------------------------------------------------------
(* C2 *)

\* C2 as stated: once the generator has returned from a list of n items of
\* which s were extracted, it has yielded 3*s + 2*(n - s) messages.
C2_AsStated ==
    (pc = "done" /\ ~NoFiles(files)) =>
        Len(out) = 3 * Cardinality(extracted)
                   + 2 * (Len(files.v) - Cardinality(extracted))

\* a failed item whose messages are out has an error text, then an error JSON
FailedItemMessages ==
    \A k \in failed : Finished(k) =>
        LET m == MessagesOf(k) IN
        /\ Types(m) = <<"text", "json">>
        /\ m[1].kind = "error"
        /\ m[2].kind = "error"

\* once the generator has returned after a successful import, every item
\* was extracted or failed, and the messages are 3 per extracted item and 2
\* per failed item, grouped by item in the order of the list
AllItemsProcessed ==
    (pc = "done" /\ i >= 1) =>
        LET n == Len(files.v) IN
        /\ extracted \cup failed = 1..n
        /\ extracted \cap failed = {}
        /\ Len(out) = 3 * Cardinality(extracted) + 2 * Cardinality(failed)
        /\ \A j \in 1..Len(owner) : owner[j] \in 1..n
        /\ \A j \in 1..(Len(owner) - 1) : owner[j] <= owner[j + 1]
        /\ \A k \in extracted : Len(MessagesOf(k)) = 3

\* how far the generator is: the item it is at, then the step within the item
Rank ==
    6 * i + (CASE pc = "start" -> 0
               [] pc = "import" -> 1
               [] pc = "item" -> 0
               [] pc = "extract" -> 1
               [] pc = "yield_text" -> 2
               [] pc = "yield_json" -> 3
               [] pc = "yield_blob" -> 4
               [] pc = "after_blob" -> 5
               [] pc = "except" -> 2
               [] pc = "yield_error_json" -> 3
               [] pc = "after_error_json" -> 4
               [] pc = "return" -> 2
               [] pc = "done" -> 5)

\* the generator is never stuck before it returns
CanStep == pc # "done" => ENABLED Next

\* C2, amended: when the PDF library was imported, a failure of one item
\* yields an error text and an error JSON for it and no blob, the later items
\* are still processed, and the generator returns after 3*s + 2*f messages
\* grouped by item in list order.  It returns because it is never stuck and
\* every step raises a rank that the length of the list bounds.
C2_FailuresIsolated ==
    /\ [](FailedItemMessages /\ AllItemsProcessed /\ CanStep)
    /\ [](files.t = "list" => Rank <= 6 * (Len(files.v) + 1) + 5)
    /\ [][Rank' > Rank]_vars

C2_Witness ==
    /\ pc = "done"
    /\ \E k \in failed : \E j \in extracted : k < j

----------------------------------------------------------------------------
(* C3 *)

\* at most one GET is ever issued for an item
AtMostOneGet == \A k \in 1..i : Len(GetsOf(k)) <= 1

\* embedded bytes are returned as they are, without any GET
EmbeddedWins ==
    (Resolved /\ Embedded(Item)) =>
        /\ GetsOf(i) = <<>>
        /\ pdf_bytes = Bytes(Item.blob.v)
        /\ err # "ValueError: No usable PDF source found"

\* the first of url and remote_url that is a str and not blank, stripped
FirstNonBlank(item) ==
    IF NonBlank(item.url) THEN Strip(item.url.v) ELSE Strip(item.remote_url.v)

\* C3 as stated: embedded bytes win over the URL and cost no GET; a dict item
\* without embedded bytes costs exactly one GET, to the first non-blank of
\* url and remote_url.
C3_AsStated ==
    /\ AtMostOneGet
    /\ EmbeddedWins
    /\ (Resolved /\ Item.kind = "dict" /\ ~Embedded(Item)) =>
          /\ Len(GetsOf(i)) = 1
          /\ GetsOf(i)[1] = FirstNonBlank(Item)

\* C3, amended: embedded bytes win over the URL and cost no GET; a dict item
\* without embedded bytes that has a non-blank url or remote_url costs exactly
\* one GET, to the first non-blank of the two with surrounding whitespace
\* removed; without either it costs no GET; no item ever costs more than one.
C3_BytesBeforeUrl ==
    /\ AtMostOneGet
    /\ EmbeddedWins
    /\ (Resolved /\ Item.kind = "dict" /\ ~Embedded(Item) /\ HasUrl(Item)) =>
          GetsOf(i) = <<FirstNonBlank(Item)>>
    /\ (Resolved /\ Item.kind = "dict" /\ ~Embedded(Item) /\ ~HasUrl(Item)) =>
          GetsOf(i) = <<>> /\ i \in failed

C3_Witness ==
    /\ pc = "extract"
    /\ i > 1
    /\ Embedded(Item) /\ HasUrl(Item)
    /\ \E k \in 1..(i - 1) :
          /\ ~Embedded(files.v[k])
          /\ ~NonBlank(files.v[k].url)
          /\ NonBlank(files.v[k].remote_url)
          /\ GetsOf(k) = <<Strip(files.v[k].remote_url.v)>>

----------------------------------------------------------------------------
(* C4 *)

\* the pages of the PDF being processed, as the library reports them
Pages == pdf_bytes.v.pages

\* where page k (1-based) starts in the joined text, as an offset
RECURSIVE Offset(_)
Offset(k) == IF k <= 1 THEN 0 ELSE Offset(k - 1) + Len(Pages[k - 1]) + Len(PageBreak)

\* C4: the text message of a PDF of n pages holds the texts of pages 0..n-1,
\* each loaded once and in ascending order, with the page break between
\* consecutive pages and nowhere else around them; it is empty for n = 0.
C4_JoinedText ==
    pc \in {"yield_json", "yield_blob", "after_blob"} =>
        LET n == Len(Pages)
            t == MessagesOf(i)[1].text
        IN
        /\ calls = [k \in 1..n |-> k - 1]
        /\ Len(t) = IF n = 0 THEN 0 ELSE Offset(n) + Len(Pages[n])
        /\ \A k \in 1..n : SubSeq(t, Offset(k) + 1, Offset(k) + Len(Pages[k])) = Pages[k]
        /\ \A k \in 1..(n - 1) :
              SubSeq(t, Offset(k) + Len(Pages[k]) + 1, Offset(k + 1)) = PageBreak

C4_Witness ==
    /\ pc = "yield_json"
    /\ Len(Pages) >= 2
    /\ Pages[1] # Pages[2]
    /\ MessagesOf(i)[1].text # <<>>

----------------------------------------------------------------------------
(* C5 *)

\* C5: the JSON message of a processed file maps the filename to one record
\* per page, in page order; record k has the text of page k, page number k
\* and the filename.
C5_PageRecords ==
    pc \in {"yield_blob", "after_blob"} =>
        LET m == MessagesOf(i)[2] IN
        /\ m.type = "json" /\ m.kind = "pages"
        /\ m.key = filename
        /\ Len(m.value) = Len(Pages)
        /\ \A k \in 1..Len(Pages) :
              /\ m.value[k].text = Pages[k]
              /\ m.value[k].metadata = [page |-> k, file_name |-> m.key]

C5_Witness ==
    /\ pc = "yield_blob"
    /\ Len(Pages) >= 2
    /\ MessagesOf(i)[2].value[2].metadata.page = 2

----------------------------------------------------------------------------
(* C6 *)

\* the item provides bytes, or a url or remote_url that is not blank
Provides(item) == (item.blob.t \in {"bytes", "bytearray"} /\ ~item.blob.v.empty) \/ HasUrl(item)

\* C6: "No usable PDF source found" is raised only for items that provide
\* neither a blob nor a url or remote_url, dict or object alike.
C6_InputTolerant ==
    (pc = "except" /\ err = "ValueError: No usable PDF source found") => ~Provides(Item)

----------------------------------------------------------------------------
(* C7 *)

\* the key the documentation promises: the filename if there is one, else the
\* last path segment of the URL without its query, else document.pdf
PromisedKey(item) ==
    IF NonBlank(item.filename) THEN Strip(item.filename.v)
    ELSE IF HasUrl(item) /\ Basename(SplitQuery(FirstNonBlank(item))) # <<>>
         THEN Basename(SplitQuery(FirstNonBlank(item)))
         ELSE DocumentPdf

\* C7: every JSON message of an item, on the success path and on the error
\* path, is keyed by the item's filename when it has one, else by the URL's leaf,
\* else by document.pdf.
C7_FilenameKey ==
    \A j \in 1..Len(out) :
        out[j].type = "json" => out[j].key = PromisedKey(files.v[owner[j]])

----------------------------------------------------------------------------
(* C8 *)

\* C8: without a usable files list the generator yields the one notice and
\* returns, with no import, no open and no GET.
C8_NoFiles ==
    ((files.t # "list" \/ Len(files.v) = 0) /\ pc # "start") =>
        /\ pc \in {"return", "done"}
        /\ out = <<NoticeMessage("no_files", "")>>
        /\ ~imported
        /\ opens = 0
        /\ http = <<>>

C8_Witness == pc = "done" /\ files.t = "other" /\ Len(out) = 1

----------------------------------------------------------------------------
(* C9 *)

\* C9: after a fetch, what _ensure_pdf_bytes gave is what it would have given
\* under any other Content-Type; the bytes are the body; the fetch fails only
\* on a transport error or an error status.
C9_ContentTypeIgnored ==
    (pc \in {"extract", "except"} /\ resp # None) =>
        /\ \A c \in ContentTypes :
              LET alt == EnsurePdfBytes(Item, [resp EXCEPT !.ctype = c]) IN
              /\ alt.raised = (pc = "except")
              /\ alt.gets = GetsOf(i)
              /\ alt.raised => alt.e = err
              /\ ~alt.raised => Bytes(alt.value) = pdf_bytes
        /\ pc = "extract" => pdf_bytes = Bytes(resp.content)
        /\ pc = "except" => (resp.transport_error \/ resp.status \notin 200..399)

C9_Witness ==
    /\ pc = "extract"
    /\ resp # None
    /\ resp.ctype # None
    /\ ~Contains(Lower(resp.ctype.v), <<112, 100, 102>>)
    /\ pdf_bytes.v.valid

====
